---- MODULE Spec2Model ----
(***************************************************************************)
(* Flashcard generation pipeline: app/features/dynamo/core.py (executor)   *)
(* and app/features/dynamo/tools.py (get_loader, process_chunk,            *)
(* generate_flashcards_from_files, summarize_transcript,                   *)
(* generate_flashcards).                                                   *)
(*                                                                         *)
(* The external collaborators (document loaders, the text splitter and the *)
(* remote model) are the environment: each of their results is drawn from  *)
(* a small set at the step that calls them.                                *)
(***************************************************************************)
EXTENDS Integers, Sequences, FiniteSets, TLC

(* ------------------------------ bounds -------------------------------- *)
MaxFiles == 2
MaxCards == 2
MaxResp == 2
MaxBatches == 2

(* ------------------------- program constants -------------------------- *)
chunk_limit == 30
DefaultMaxVideoLength == 2000

(* ------------------------------ strings ------------------------------- *)
\* A filename is a sequence of one-character strings.
Upper == <<"A","B","C","D","E","F","G","H","I","J","K","L","M",
           "N","O","P","Q","R","S","T","U","V","W","X","Y","Z">>
LowerLetters == <<"a","b","c","d","e","f","g","h","i","j","k","l","m",
                  "n","o","p","q","r","s","t","u","v","w","x","y","z">>

LowerChar(c) ==
  IF \E k \in 1..26 : Upper[k] = c
    THEN LowerLetters[CHOOSE k \in 1..26 : Upper[k] = c]
    ELSE c

\* str.lower()
Lower(s) == [k \in 1..Len(s) |-> LowerChar(s[k])]

\* str.endswith(suffix)
EndsWith(s, suffix) ==
  /\ Len(suffix) <= Len(s)
  /\ SubSeq(s, Len(s) - Len(suffix) + 1, Len(s)) = suffix

\* sub in s
Contains(s, sub) ==
  \E k \in 1..(Len(s) - Len(sub) + 1) : SubSeq(s, k, k + Len(sub) - 1) = sub

ExtPdf == <<".","p","d","f">>
ExtDocx == <<".","d","o","c","x">>
ExtPptx == <<".","p","p","t","x">>
ExtCsv == <<".","c","s","v">>
ExtXlsx == <<".","x","l","s","x">>
YoutubeCom == <<"y","o","u","t","u","b","e",".","c","o","m">>

(* --------------------------- error messages --------------------------- *)
\* An f-string is the sequence of its parts: literals, an embedded filename,
\* an embedded URL, an embedded number.
Lit(s) == [k |-> "lit", s |-> s, f |-> <<>>, n |-> 0]
FilePart(f) == [k |-> "file", s |-> "", f |-> f, n |-> 0]
UrlPart(u) == [k |-> "url", s |-> u, f |-> <<>>, n |-> 0]
NumPart(n) == [k |-> "num", s |-> "", f |-> <<>>, n |-> n]

Exc(type, msg) == [type |-> type, msg |-> msg, url |-> ""]
NoExc == Exc("none", <<>>)

\* VideoTranscriptError(message, url)
VideoTranscriptError(msg, url) == [type |-> "VideoTranscriptError", msg |-> msg, url |-> url]

\* str(HTTPException(status_code=500, detail=d))
HTTPException(detail) == Exc("HTTPException", <<NumPart(500), Lit(": "), Lit(detail)>>)

(* ----------------------------- get_loader ----------------------------- *)
\* A variant that matches on the filename as given, without lower().
get_loader_case_sensitive(filename) ==
  IF EndsWith(filename, ExtPdf) THEN [status |-> "return", loader |-> "PDFLoader", exc |-> NoExc]
  ELSE IF EndsWith(filename, ExtDocx) THEN [status |-> "return", loader |-> "DOCXLoader", exc |-> NoExc]
  ELSE IF EndsWith(filename, ExtPptx) THEN [status |-> "return", loader |-> "PPTXLoader", exc |-> NoExc]
  ELSE IF EndsWith(filename, ExtCsv) THEN [status |-> "return", loader |-> "CSVLoader", exc |-> NoExc]
  ELSE IF EndsWith(filename, ExtXlsx) THEN [status |-> "return", loader |-> "XLSXLoader", exc |-> NoExc]
  ELSE IF Contains(filename, YoutubeCom)
    THEN [status |-> "return", loader |-> "YoutubeTranscriptLoader", exc |-> NoExc]
  ELSE [status |-> "raise", loader |-> "none",
        exc |-> Exc("ValueError", <<Lit("Unsupported file type: "), FilePart(filename)>>)]

\* tools.py 33-48
get_loader(file) ==
  LET filename == Lower(file) IN
  IF EndsWith(filename, ExtPdf) THEN [status |-> "return", loader |-> "PDFLoader", exc |-> NoExc]
  ELSE IF EndsWith(filename, ExtDocx) THEN [status |-> "return", loader |-> "DOCXLoader", exc |-> NoExc]
  ELSE IF EndsWith(filename, ExtPptx) THEN [status |-> "return", loader |-> "PPTXLoader", exc |-> NoExc]
  ELSE IF EndsWith(filename, ExtCsv) THEN [status |-> "return", loader |-> "CSVLoader", exc |-> NoExc]
  ELSE IF EndsWith(filename, ExtXlsx) THEN [status |-> "return", loader |-> "XLSXLoader", exc |-> NoExc]
  ELSE IF Contains(filename, YoutubeCom)
    THEN [status |-> "return", loader |-> "YoutubeTranscriptLoader", exc |-> NoExc]
  ELSE [status |-> "raise", loader |-> "none",
        exc |-> Exc("ValueError", <<Lit("Unsupported file type: "), FilePart(file)>>)]

(* ------------------------ summarize_transcript ------------------------ *)
\* What YoutubeLoader yields for a URL: whether from_youtube_url succeeds,
\* whether load() succeeds, the number of documents, and the "length" and
\* "title" metadata of the first document (absent = metadata.get gives None).
Video(found, loads, ndocs, hasLength, length, hasTitle) ==
  [found |-> found, loads |-> loads, ndocs |-> ndocs,
   hasLength |-> hasLength, length |-> length, hasTitle |-> hasTitle]

NoVideo == Video(FALSE, FALSE, 0, FALSE, 0, FALSE)

\* not length or not title
MissingMetadata(v) == ~(v.hasLength /\ v.length # 0) \/ ~v.hasTitle

\* A variant that also rejects a length equal to the ceiling.
TooLongInclusive(length, max_video_length) == length >= max_video_length

\* tools.py 135
TooLong(length, max_video_length) == length > max_video_length

\* modelOk: whether chain.invoke(full_transcript) returns.
\* invoked: whether the summarization model was invoked.
summarize_transcript(url, v, max_video_length, modelOk) ==
  IF ~v.found
    THEN [status |-> "raise", invoked |-> FALSE,
          exc |-> VideoTranscriptError(<<Lit("No video found")>>, url)]
  ELSE IF ~v.loads \/ v.ndocs = 0 \/ MissingMetadata(v)
    THEN [status |-> "raise", invoked |-> FALSE,
          exc |-> VideoTranscriptError(<<Lit("No video transcripts available")>>, url)]
  ELSE IF TooLong(v.length, max_video_length)
    THEN [status |-> "raise", invoked |-> FALSE,
          exc |-> VideoTranscriptError(
                    <<Lit("Video is "), NumPart(v.length),
                      Lit(" seconds long, please provide a video less than "),
                      NumPart(max_video_length), Lit(" seconds long")>>, url)]
  ELSE IF ~modelOk
    THEN [status |-> "raise", invoked |-> TRUE,
          exc |-> Exc("Exception", <<Lit("model call failed")>>)]
  ELSE [status |-> "return", invoked |-> TRUE, exc |-> NoExc]

(* --------------------------- model responses -------------------------- *)
\* What the cards chain (prompt | model | JsonOutputParser) gives back:
\* a JSON array of objects, a JSON object, or an exception.  Iterating a
\* Python dict yields its keys, so the elements of an object response are
\* strings; the elements of an array response are dicts, kept as key sets.
KeyConcept == <<"c","o","n","c","e","p","t">>
KeyDefinition == <<"d","e","f","i","n","i","t","i","o","n">>
KeyFlashcards == <<"f","l","a","s","h","c","a","r","d","s">>
KeyBoth == KeyConcept \o <<"_">> \o KeyDefinition

DictEl(keys) == [kind |-> "dict", keys |-> keys, str |-> <<>>]
StrEl(str) == [kind |-> "str", keys |-> {}, str |-> str]

Full == DictEl({"concept", "definition"})
NoDefinition == DictEl({"concept"})
NoConcept == DictEl({"definition"})

ListResponse(items) == [type |-> "list", items |-> items]
DictResponse(keys) == [type |-> "dict", items |-> [k \in 1..Len(keys) |-> StrEl(keys[k])]]
RaiseResponse == [type |-> "raise", items |-> <<>>]

\* 'concept' in flashcard / 'definition' in flashcard
HasConcept(el) == IF el.kind = "dict" THEN "concept" \in el.keys ELSE Contains(el.str, KeyConcept)
HasDefinition(el) ==
  IF el.kind = "dict" THEN "definition" \in el.keys ELSE Contains(el.str, KeyDefinition)

\* A card is a response element tagged with where it came from: src is 0
\* for the URL and the file's position otherwise.
Card(el, src, batch, pos) ==
  [kind |-> el.kind, keys |-> el.keys, str |-> el.str, src |-> src, batch |-> batch, pos |-> pos]

Tag(items, src, batch) == [k \in 1..Len(items) |-> Card(items[k], src, batch, k)]

(* ------------------------- generate_flashcards ------------------------ *)
generate_flashcards(response, max) ==
  IF response.type = "raise"
    THEN [status |-> "raise", value |-> RaiseResponse,
          exc |-> HTTPException("Failed to generate flashcards from LLM")]
  ELSE IF Len(response.items) > max
    THEN IF response.type = "list"
           THEN [status |-> "return", exc |-> NoExc,
                 value |-> ListResponse(SubSeq(response.items, 1, max))]
           \* slicing a dict raises inside the try block
           ELSE [status |-> "raise", value |-> RaiseResponse,
                 exc |-> HTTPException("Failed to generate flashcards from LLM")]
  ELSE [status |-> "return", value |-> response, exc |-> NoExc]

(* ---------------------------- process_chunk --------------------------- *)
\* A variant without the isinstance check's raise: a non-list is no cards.
process_chunk_lenient(response) ==
  IF response.type = "list"
    THEN [status |-> "return", value |-> response.items, exc |-> NoExc]
    ELSE [status |-> "return", value |-> <<>>, exc |-> NoExc]

\* tools.py 60-77
process_chunk(response) ==
  IF response.type = "list"
    THEN [status |-> "return", value |-> response.items, exc |-> NoExc]
    ELSE [status |-> "raise", value |-> <<>>,
          exc |-> HTTPException("Failed to generate flashcards from PDF")]

(* ------------------------------- inputs ------------------------------- *)
SeqsUpTo(S, n) == UNION {[1..m -> S] : m \in 0..n}

Min(a, b) == IF a < b THEN a ELSE b

NoUrl == ""
Urls == {NoUrl, "https://youtube.com/watch?v=x"}

FileAPdf == <<"a">> \o ExtPdf
FileNotesTxt == <<"n",".","t","x","t">>
ExecFilenames == {FileAPdf, FileNotesTxt}

VideoLengths ==
  {1, DefaultMaxVideoLength - 1, DefaultMaxVideoLength,
   DefaultMaxVideoLength + 1, DefaultMaxVideoLength + 1000}

VideoChoices ==
  {Video(FALSE, FALSE, 0, FALSE, 0, FALSE),
   Video(TRUE, FALSE, 0, FALSE, 0, FALSE),
   Video(TRUE, TRUE, 0, FALSE, 0, FALSE),
   Video(TRUE, TRUE, 1, FALSE, 0, TRUE),
   Video(TRUE, TRUE, 1, TRUE, 0, TRUE),
   Video(TRUE, TRUE, 1, TRUE, DefaultMaxVideoLength + 1000, FALSE)}
  \cup {Video(TRUE, TRUE, 1, TRUE, l, TRUE) : l \in VideoLengths}

\* JSON arrays of up to MaxResp objects: all well-formed, or the last one
\* lacking its definition.
ListItems ==
  {[k \in 1..n |-> Full] : n \in 0..MaxResp}
  \cup {[k \in 1..n |-> IF k = n THEN NoDefinition ELSE Full] : n \in 1..MaxResp}

\* Responses to the summary path's call and to a batch's call.
CardResponses ==
  {ListResponse(items) : items \in ListItems}
  \cup {DictResponse(<<KeyConcept, KeyDefinition>>), DictResponse(<<KeyFlashcards>>),
         DictResponse(<<KeyBoth>>), RaiseResponse}

ChunkResponses ==
  {ListResponse(items) : items \in ListItems}
  \cup {DictResponse(<<KeyConcept, KeyDefinition>>), RaiseResponse}

\* range(0, total_chunks, chunk_limit) has this many batches.
BatchesOf(n) == (n + chunk_limit - 1) \div chunk_limit

RECURSIVE BatchesLoaded(_)
BatchesLoaded(ls) ==
  IF ls = <<>> THEN 0 ELSE BatchesOf(ls[1].chunks) + BatchesLoaded(Tail(ls))

\* len(split_docs) of the next file: no chunk, a last batch of one chunk, a
\* full last batch; the files of one call hold at most MaxBatches batches.
TotalChunkChoices(ls) ==
  LET left == MaxBatches - BatchesLoaded(ls) IN
  {0} \cup {chunk_limit * (k - 1) + 1 : k \in 1..left}
      \cup {chunk_limit * k : k \in {left} \ {0}}

(* ------------------------------- state -------------------------------- *)
VARIABLES
  youtube_url,           \* executor argument ("" when absent)
  files,                 \* executor argument: the filenames of the uploads
  max_flashcards,        \* executor argument
  pc,                    \* position in executor and its callees
  sanitized_flashcards,  \* executor local
  fileIdx,               \* position of `file` in `files` (for file in files)
  loader_class,          \* executor local
  total_chunks,          \* generate_flashcards_from_files local
  i,                     \* generate_flashcards_from_files loop variable
  flashcards,            \* generate_flashcards_from_files local
  raised,                \* the exception executor (or get_loader) raised
  result,                \* the list executor returned
  modelCalls,            \* the model invocations made so far, in order
  loads,                 \* the loader.load() calls: file position, chunks obtained
  video,                 \* what the YouTube loader gave summarize_transcript
  summ,                  \* outcome of the summarize_transcript call
  raisedIn               \* where the raised exception came from: "url", "file", "get_loader"

vars == <<youtube_url, files, max_flashcards, pc, sanitized_flashcards, fileIdx,
          loader_class, total_chunks, i, flashcards, raised, result, modelCalls,
          loads, video, summ, raisedIn>>

inputs == <<youtube_url, files, max_flashcards>>
gffLocals == <<total_chunks, i, flashcards>>

NoSumm == [status |-> "none", invoked |-> FALSE, exc |-> NoExc]

Call(kind, src, batch, first, count, response) ==
  [kind |-> kind, src |-> src, batch |-> batch, first |-> first, count |-> count,
   response |-> response]

Locals0 ==
  /\ sanitized_flashcards = <<>>
  /\ fileIdx = 1
  /\ loader_class = "none"
  /\ total_chunks = 0
  /\ i = 0
  /\ flashcards = <<>>
  /\ raised = NoExc
  /\ result = <<>>
  /\ modelCalls = <<>>
  /\ loads = <<>>
  /\ video = NoVideo
  /\ summ = NoSumm
  /\ raisedIn = "none"

Init ==
  /\ youtube_url \in Urls
  /\ files \in SeqsUpTo(ExecFilenames, MaxFiles)
  /\ max_flashcards \in 1..MaxCards
  /\ pc = "executor"
  /\ Locals0

(* ------------------------------ executor ------------------------------ *)
\* core.py 23-28: the handlers around the URL branch
UrlHandler(e) ==
  IF e.type = "VideoTranscriptError"
    THEN Exc("ValueError", <<Lit("Error in processing YouTube URL: ")>> \o e.msg)
    ELSE Exc("ValueError", <<Lit("Error in executor: ")>> \o e.msg)

\* core.py 36-41: the handlers around one file
FileHandler(file, e) ==
  IF e.type = "LoaderError"
    THEN Exc("ValueError", <<Lit("Error in processing "), FilePart(file), Lit(": ")>> \o e.msg)
    ELSE Exc("ValueError", <<Lit("Error in executor: ")>> \o e.msg)

\* A variant that logs the URL branch's failure and goes on to the files.
UrlFailureContinues(e) ==
  /\ pc' = "files"
  /\ raised' = raised
  /\ raisedIn' = "url"

\* An exception leaves the URL branch: executor raises.
UrlFailure(e) ==
  /\ pc' = "raised"
  /\ raised' = UrlHandler(e)
  /\ raisedIn' = "url"

\* A variant that logs a file's failure and goes on to the next file.
FileFailureSkipsFile(e) ==
  /\ pc' = "files"
  /\ raised' = raised
  /\ raisedIn' = "file"
  /\ fileIdx' = fileIdx + 1

\* An exception leaves the body of `for file in files`: executor raises.
FileFailure(e) ==
  /\ pc' = "raised"
  /\ raised' = FileHandler(files[fileIdx], e)
  /\ raisedIn' = "file"
  /\ UNCHANGED fileIdx

\* core.py 15-22: the loop over the URL branch's flashcards.  Subscripting
\* a string element with 'concept' raises TypeError.
Keeps(el) == HasConcept(el) /\ HasDefinition(el)

SanitizeLoop(cards) ==
  LET bad == {k \in 1..Len(cards) : cards[k].kind = "str" /\ Keeps(cards[k])}
      stop == IF bad = {} THEN Len(cards) + 1 ELSE CHOOSE k \in bad : \A j \in bad : k <= j
      kept == SelectSeq(SubSeq(cards, 1, stop - 1), Keeps)
  IN [status |-> IF bad = {} THEN "return" ELSE "raise",
      out |-> [k \in 1..Len(kept) |->
                 Card(Full, kept[k].src, kept[k].batch, kept[k].pos)],
      exc |-> IF bad = {} THEN NoExc
              ELSE Exc("TypeError", <<Lit("string indices must be integers")>>)]

\* core.py 8-11
Executor_Begin ==
  /\ pc = "executor"
  /\ sanitized_flashcards' = <<>>
  /\ pc' = IF youtube_url # NoUrl THEN "summarize" ELSE "files"
  /\ UNCHANGED <<inputs, fileIdx, loader_class, gffLocals, raised, raisedIn, result, modelCalls,
                 loads, video, summ>>

\* core.py 13, with summarize_transcript
Executor_Summarize ==
  /\ pc = "summarize"
  /\ \E v \in VideoChoices, modelOk \in BOOLEAN :
       LET r == summarize_transcript(youtube_url, v, DefaultMaxVideoLength, modelOk) IN
       /\ video' = v
       /\ summ' = r
       /\ modelCalls' = IF r.invoked
                          THEN Append(modelCalls, Call("summarize", 0, 0, 0, 0, RaiseResponse))
                          ELSE modelCalls
       /\ IF r.status = "return"
            THEN pc' = "generate" /\ UNCHANGED <<raised, raisedIn>>
            ELSE UrlFailure(r.exc)
  /\ UNCHANGED <<inputs, sanitized_flashcards, fileIdx, loader_class, gffLocals, result, loads>>

\* core.py 14-22, with generate_flashcards
Executor_Generate ==
  /\ pc = "generate"
  /\ \E response \in CardResponses :
       LET g == generate_flashcards(response, max_flashcards)
           s == SanitizeLoop(Tag(g.value.items, 0, 0))
       IN
       /\ modelCalls' = Append(modelCalls, Call("cards", 0, 0, 0, 0, response))
       /\ IF g.status = "raise"
            THEN UrlFailure(g.exc) /\ UNCHANGED sanitized_flashcards
            ELSE /\ sanitized_flashcards' = sanitized_flashcards \o s.out
                 /\ IF s.status = "raise"
                      THEN UrlFailure(s.exc)
                      ELSE pc' = "files" /\ UNCHANGED <<raised, raisedIn>>
  /\ UNCHANGED <<inputs, fileIdx, loader_class, gffLocals, result, loads, video, summ>>

\* core.py 30-33: the next file and its loader
Executor_GetLoader ==
  /\ pc = "files"
  /\ fileIdx <= Len(files)
  /\ LET r == get_loader(files[fileIdx]) IN
       IF r.status = "raise"
         THEN FileFailure(r.exc) /\ UNCHANGED loader_class
         ELSE /\ loader_class' = r.loader
              /\ pc' = "load"
              /\ UNCHANGED <<raised, raisedIn, fileIdx>>
  /\ UNCHANGED <<inputs, sanitized_flashcards, gffLocals, result, modelCalls, loads,
                 video, summ>>

\* tools.py 80-95: load, split, and the locals of the batch loop
Gff_Load ==
  /\ pc = "load"
  /\ \E ok \in BOOLEAN, n \in TotalChunkChoices(loads) :
       IF ~ok
         THEN /\ loads' = Append(loads, [file |-> fileIdx, ok |-> FALSE, chunks |-> 0])
              /\ FileFailure(Exc("LoaderError", <<Lit("Failed to load files")>>))
              /\ UNCHANGED gffLocals
         ELSE /\ loads' = Append(loads, [file |-> fileIdx, ok |-> TRUE, chunks |-> n])
              /\ total_chunks' = n
              /\ i' = 0
              /\ flashcards' = <<>>
              /\ pc' = "batch"
              /\ UNCHANGED <<raised, raisedIn, fileIdx>>
  /\ UNCHANGED <<inputs, sanitized_flashcards, loader_class, result, modelCalls, video, summ>>

\* A variant that stops only once the quota is exceeded.
BreakLoopStrict(cards, max) == Len(cards) > max

\* tools.py 102: the early exit of the batch loop
BreakLoop(cards, max) == Len(cards) >= max

\* tools.py 97-106: one iteration of the batch loop
Gff_Batch ==
  /\ pc = "batch"
  /\ i < total_chunks
  /\ \E response \in ChunkResponses :
       LET r == process_chunk(response)
           batch == (i \div chunk_limit) + 1
           extended == flashcards \o Tag(r.value, fileIdx, batch)
       IN
       /\ modelCalls' = Append(modelCalls,
              Call("cards", fileIdx, batch, i, Min(chunk_limit, total_chunks - i), response))
       /\ IF r.status = "raise"
            THEN /\ FileFailure(HTTPException("Failed to generate flashcards from files"))
                 /\ UNCHANGED <<i, flashcards>>
            ELSE /\ flashcards' = extended
                 /\ IF BreakLoop(extended, max_flashcards)
                      THEN pc' = "gff_return" /\ UNCHANGED i
                      ELSE pc' = "batch" /\ i' = i + chunk_limit
                 /\ UNCHANGED <<raised, raisedIn, fileIdx>>
  /\ UNCHANGED <<inputs, sanitized_flashcards, loader_class, total_chunks, result, loads,
                 video, summ>>

\* tools.py 97: range(0, total_chunks, chunk_limit) is exhausted
Gff_LoopEnd ==
  /\ pc = "batch"
  /\ i >= total_chunks
  /\ pc' = "gff_return"
  /\ UNCHANGED <<inputs, sanitized_flashcards, fileIdx, loader_class, gffLocals, raised, raisedIn,
                 result, modelCalls, loads, video, summ>>

\* tools.py 108 and core.py 35
Gff_Return ==
  /\ pc = "gff_return"
  /\ sanitized_flashcards' =
       sanitized_flashcards \o SubSeq(flashcards, 1, Min(max_flashcards, Len(flashcards)))
  /\ fileIdx' = fileIdx + 1
  /\ pc' = "files"
  /\ UNCHANGED <<inputs, loader_class, gffLocals, raised, raisedIn, result, modelCalls, loads,
                 video, summ>>

\* core.py 43
Executor_Return ==
  /\ pc = "files"
  /\ fileIdx > Len(files)
  /\ result' = sanitized_flashcards
  /\ pc' = "returned"
  /\ UNCHANGED <<inputs, sanitized_flashcards, fileIdx, loader_class, gffLocals, raised, raisedIn,
                 modelCalls, loads, video, summ>>

Next ==
  \/ Executor_Begin
  \/ Executor_Summarize
  \/ Executor_Generate
  \/ Executor_GetLoader
  \/ Gff_Load
  \/ Gff_Batch
  \/ Gff_LoopEnd
  \/ Gff_Return
  \/ Executor_Return

Spec == Init /\ [][Next]_vars

(* --------------------- get_loader on its own ---------------------------- *)
Stems ==
  {<<>>, <<"a">>, <<"L","e","c">>,
   YoutubeCom \o <<"/","v">>,
   <<"Y","o","u","T","u","b","e",".","C","O","M","/">>}

Extensions ==
  {<<>>,
   ExtPdf, <<".","P","D","F">>, <<".","P","d","f">>,
   ExtDocx, <<".","D","O","C","X">>,
   ExtPptx, <<".","P","p","t","X">>,
   ExtCsv, <<".","C","S","V">>,
   ExtXlsx, <<".","X","L","S","X">>,
   <<".","t","x","t">>, <<".","d","o","c">>, <<".","x","l","s">>,
   <<"p","d","f">>, ExtPdf \o <<".","t","x","t">>, ExtCsv \o <<" ">>}

LoaderFilenames == {stem \o ext : stem \in Stems, ext \in Extensions}

InitLoader ==
  /\ youtube_url = NoUrl
  /\ files \in {<<f>> : f \in LoaderFilenames}
  /\ max_flashcards = 1
  /\ pc = "get_loader"
  /\ Locals0

\* tools.py 33-48: one call of get_loader
GetLoader_Call ==
  /\ pc = "get_loader"
  /\ LET r == get_loader(files[1]) IN
       /\ loader_class' = r.loader
       /\ raised' = r.exc
       /\ raisedIn' = IF r.status = "raise" THEN "get_loader" ELSE "none"
       /\ pc' = IF r.status = "raise" THEN "gl_raised" ELSE "gl_returned"
  /\ UNCHANGED <<inputs, sanitized_flashcards, fileIdx, gffLocals, result, modelCalls,
                 loads, video, summ>>

NextLoader == GetLoader_Call

SpecLoader == InitLoader /\ [][NextLoader]_vars

(* ============================ properties ============================== *)
\* The model calls made for the file at position f, in order.
CallsOf(f) == LET T(c) == c.kind = "cards" /\ c.src = f IN SelectSeq(modelCalls, T)

\* The cards of the output that came from source src (0: the URL).
CardsFrom(cards, src) == LET T(c) == c.src = src IN SelectSeq(cards, T)

\* The cards the list responses among calls 1..n hold, in order.
RECURSIVE Accumulated(_, _)
Accumulated(calls, n) ==
  IF n = 0 THEN <<>>
  ELSE Accumulated(calls, n - 1) \o
       (IF calls[n].response.type = "list"
          THEN Tag(calls[n].response.items, calls[n].src, calls[n].batch)
          ELSE <<>>)

Names(e, file) == \E k \in 1..Len(e.msg) : e.msg[k].k = "file" /\ e.msg[k].f = file

Says(e, text) == \E k \in 1..Len(e.msg) : e.msg[k].k = "lit" /\ e.msg[k].s = text

\* C1: a list executor returns has at most max_flashcards entries.
C1_ReturnedAtMostMax ==
  pc = "returned" => Len(result) <= max_flashcards

\* C2: every record executor returns holds both a concept and a definition
\* key, and no record the model returned without one of them is in the
\* output.
C2_OutputHasBothKeys ==
  pc = "returned" =>
    \A k \in 1..Len(result) :
      LET c == result[k]
          raw == CHOOSE call \in {modelCalls[j] : j \in 1..Len(modelCalls)} :
                   call.kind = "cards" /\ call.src = c.src /\ call.batch = c.batch
      IN /\ c.kind = "dict"
         /\ {"concept", "definition"} \subseteq c.keys
         /\ Keeps(raw.response.items[c.pos])

\* C3: when the summary path's model response is not a list, the generation
\* fails and executor raises; it does not go on or return a list.
C3_NonListSummaryResponseFails ==
  (\E k \in 1..Len(modelCalls) :
      /\ modelCalls[k].kind = "cards"
      /\ modelCalls[k].src = 0
      /\ modelCalls[k].response.type = "dict")
    => pc = "raised" /\ raisedIn = "url"

C5_BatchLoopStopsAtQuota ==
  \A l \in 1..Len(loads) :
    LET f == loads[l].file
        calls == CallsOf(f)
        total == loads[l].chunks
        acc == Accumulated(calls, Len(calls))
    IN /\ \A n \in 1..Len(calls) :
            /\ calls[n].batch = n
            /\ calls[n].first = chunk_limit * (n - 1)
            /\ calls[n].first < total
            /\ calls[n].count = Min(chunk_limit, total - calls[n].first)
            /\ Len(Accumulated(calls, n - 1)) < max_flashcards
       /\ fileIdx > f =>
            /\ CardsFrom(sanitized_flashcards, f) = SubSeq(acc, 1, Min(max_flashcards, Len(acc)))
            /\ Len(acc) < max_flashcards => Len(calls) = BatchesOf(total)

C5_Witness ==
  /\ fileIdx > 1
  /\ Len(loads) >= 1
  /\ loads[1].chunks > chunk_limit
  /\ Len(CallsOf(1)) = 1
  /\ Len(Accumulated(CallsOf(1), 1)) > max_flashcards
  /\ Len(CardsFrom(sanitized_flashcards, 1)) = max_flashcards

\* C6: a video whose length metadata exceeds max_video_length makes
\* summarize_transcript fail with VideoTranscriptError before any model
\* invocation; a length equal to max_video_length is let through to the
\* model.
C6_TooLongRejectedBeforeModel ==
  (/\ summ.status # "none"
   /\ video.found /\ video.loads /\ video.ndocs > 0 /\ ~MissingMetadata(video)) =>
    /\ video.length > DefaultMaxVideoLength =>
         /\ summ.status = "raise"
         /\ summ.exc.type = "VideoTranscriptError"
         /\ ~summ.invoked
         /\ modelCalls = <<>>
         /\ pc = "raised"
    /\ video.length = DefaultMaxVideoLength =>
         /\ summ.invoked
         /\ summ.exc.type # "VideoTranscriptError"
         /\ Len(modelCalls) >= 1 /\ modelCalls[1].kind = "summarize"

C6_Witness ==
  /\ summ.status = "raise"
  /\ summ.exc.type = "VideoTranscriptError"
  /\ video.hasTitle
  /\ video.length = DefaultMaxVideoLength + 1

\* C7: get_loader decides on the lower-cased filename by the first rule
\* that matches, suffixes .pdf, .docx, .pptx, .csv, .xlsx and then the
\* substring youtube.com; with no match it raises an error naming the
\* original filename and returns no loader.
C7_LoaderDispatch ==
  pc \in {"gl_returned", "gl_raised"} =>
    LET name == Lower(files[1])
        rules == <<EndsWith(name, ExtPdf), EndsWith(name, ExtDocx), EndsWith(name, ExtPptx),
                   EndsWith(name, ExtCsv), EndsWith(name, ExtXlsx), Contains(name, YoutubeCom)>>
        loaders == <<"PDFLoader", "DOCXLoader", "PPTXLoader", "CSVLoader", "XLSXLoader",
                     "YoutubeTranscriptLoader">>
        matching == {k \in 1..6 : rules[k]}
    IN IF matching = {}
         THEN /\ pc = "gl_raised"
              /\ loader_class = "none"
              /\ raised.type = "ValueError"
              /\ Says(raised, "Unsupported file type: ")
              /\ Names(raised, files[1])
         ELSE /\ pc = "gl_returned"
              /\ raised = NoExc
              /\ \E k \in matching : (\A j \in matching : k <= j) /\ loader_class = loaders[k]

C7_Witness ==
  /\ pc = "gl_returned"
  /\ files[1] = <<"Y","o","u","T","u","b","e",".","C","O","M","/">> \o <<".","P","d","f">>
  /\ loader_class = "PDFLoader"

\* C8: whenever processing a file fails, executor raises ValueError and the
\* message names the file that failed.
C8_FileErrorNamesFile ==
  raisedIn = "file" =>
    /\ raised.type = "ValueError"
    /\ Names(raised, files[fileIdx])

\* C9: when processing the file at position i fails, executor raises at
\* once: no later file is loaded or sent to the model, and nothing is
\* returned, also not the cards collected so far.
C9_FailFastOverFiles ==
  raisedIn = "file" =>
    /\ pc = "raised"
    /\ raised.type = "ValueError"
    /\ fileIdx \in 1..Len(files)
    /\ \A k \in 1..Len(loads) : loads[k].file <= fileIdx
    /\ \A k \in 1..Len(modelCalls) : modelCalls[k].src <= fileIdx
    /\ result = <<>>

C9_Witness ==
  /\ raisedIn = "file"
  /\ pc = "raised"
  /\ fileIdx < Len(files)
  /\ sanitized_flashcards # <<>>
  /\ youtube_url # NoUrl

\* C10: when a batch's response is not a list, or its model call raises,
\* that batch is the last one sent, the cards of the file's earlier
\* batches are not returned, and the generation error reaches the caller.
C10_BadBatchStopsFile ==
  \A k \in 1..Len(modelCalls) :
    (modelCalls[k].src > 0 /\ modelCalls[k].response.type # "list") =>
      /\ k = Len(modelCalls)
      /\ pc = "raised"
      /\ raisedIn = "file"
      /\ fileIdx = modelCalls[k].src
      /\ Says(raised, "Failed to generate flashcards from files")
      /\ CardsFrom(sanitized_flashcards, modelCalls[k].src) = <<>>
      /\ result = <<>>

C10_Witness ==
  /\ pc = "raised"
  /\ Len(modelCalls) >= 2
  /\ modelCalls[Len(modelCalls)].batch = 2
  /\ modelCalls[Len(modelCalls)].response.type = "dict"
  /\ flashcards # <<>>

====
